---- MODULE Spec2Model ----
(***************************************************************************)
(* A model of the orchestration core of pants:                             *)
(*   - GoalRunner.run / GoalRunner._execute_engine                         *)
(*       (src/python/pants/bin/goal_runner.py)                             *)
(*   - Target.walk_targets                                                 *)
(*       (src/python/pants/engine/exp/targets.py)                          *)
(* Each component has its own specification (SpecRun, SpecWalk); the       *)
(* variables of the component that is not running stay at their idle       *)
(* values.                                                                 *)
(***************************************************************************)
EXTENDS Integers, Sequences, FiniteSets, TLC

VARIABLES
  \* ---- GoalRunner: constructor arguments (goal_runner.py:300-305) ----
  kill_nailguns,          \* self._kill_nailguns
  workdir,                \* options.for_global_scope().pants_workdir, a string
  goals,                  \* self._goals, a sequence of Goal
  invalidation_report,    \* self._invalidation_report (TRUE: present)
  \* ---- GoalRunner.run: locals and control ----
  pc,                     \* position in run() / _execute_engine()
  should_kill_nailguns,   \* local of run()
  result,                 \* local of run(): the value of _execute_engine()
  engine_result,          \* local `result` of _execute_engine()
  exc,                    \* the exception in flight, or NoExc
  \* ---- what the collaborators and the caller observe ----
  events,                 \* calls on collaborators, in order
  errors,                 \* what context.log.error was given, in order
  returned,               \* the value run() returned, or Unset
  propagated,             \* the exception that left run(), or NoExc
  \* ---- Target.walk_targets ----
  configurations,         \* target -> its configurations (each a dependency list)
  self,                   \* the target walk_targets is called on
  postorder,              \* the argument of walk_targets
  visited,                \* the closure's visited set
  stack,                  \* the active walk(target) generator frames
  yielded,                \* the targets yielded so far, in order
  walk_pc,                \* "idle" | "walking" | "done"
  \* ---- Variants.merge ----
  left,                   \* the argument left
  right,                  \* the argument right
  merge_result,           \* what merge returned
  merge_pc,               \* "idle" | "call" | "returned"
  \* ---- Sources.iter_paths ----
  sources,                \* the Sources value iter_paths is called on
  base_path,              \* the argument base_path: <<>> for None, else <<string>>
  excluded_files,         \* the local excluded_files
  position,               \* how far the chained file sources have been consumed
  evaluated,              \* the fileset wrappers called so far, in order
  paths,                  \* the paths yielded so far, in order
  iter_pc,                \* "idle" | "call" | "iterating" | "done" | "ValueError"
  \* ---- Target.select_configuration ----
  target_configurations,  \* self.configurations of the target selected from
  name,                   \* the argument name
  configs,                \* the local configs: the configurations of that name
  selected,               \* Unset, or <<the configuration returned>>
  message,                \* the configurations the error message enumerates
  select_pc,              \* "idle" | "call" | "filtered" | "returned" | "ConfigurationNotFound"
  \* ---- GoalRunnerFactory.setup ----
  enable_pantsd,          \* self._global_options.enable_pantsd
  help_request,           \* self._help_request
  help_result,            \* Unset, or <<what help_printer.print_help() returned>>
  requested_goals,        \* self._requested_goals
  target_specs,           \* self._target_specs
  tag,                    \* self._tag: the tag expressions
  _goals,                 \* self._goals
  _targets,               \* self._targets
  build_graph,            \* the addresses injected into self._build_graph
  exit_status,            \* Unset, or <<the status handed to self._exiter>>
  setup_events,           \* the calls on collaborators, in order
  goal_index,             \* position of the disambiguation loop of _expand_goals
  spec_index,             \* position of the outer loop of _expand_specs
  address_index,          \* position of the inner loop of _expand_specs
  setup_pc                \* "idle" | "launch" | "resolve" | "help" | "specs" | "context" | "done" | "exited"

runVars == <<kill_nailguns, workdir, goals, invalidation_report, pc,
             should_kill_nailguns, result, engine_result, exc, events, errors,
             returned, propagated>>
walkVars == <<configurations, self, postorder, visited, stack, yielded, walk_pc>>
mergeVars == <<left, right, merge_result, merge_pc>>
sourcesVars == <<sources, base_path, excluded_files, position, evaluated, paths, iter_pc>>
selectVars == <<target_configurations, name, configs, selected, message, select_pc>>
setupVars == <<enable_pantsd, help_request, help_result, requested_goals,
               target_specs, tag, _goals, _targets, build_graph, exit_status,
               setup_events, goal_index, spec_index, address_index, setup_pc>>
vars == <<runVars, walkVars, mergeVars, sourcesVars, selectVars, setupVars>>

----------------------------------------------------------------------------
(* Bounds *)

\* The longest list of requested goals.
MaxGoals == 2

----------------------------------------------------------------------------
(* Strings, as sequences of characters *)

\* str.endswith
EndsWith(s, suffix) ==
  /\ Len(s) >= Len(suffix)
  /\ SubSeq(s, Len(s) - Len(suffix) + 1, Len(s)) = suffix

\* '.pants.d'
PantsWorkdirSuffix == <<".", "p", "a", "n", "t", "s", ".", "d">>

\* The working directories a run is configured with.
Workdirs ==
  { PantsWorkdirSuffix,                                              \* ".pants.d"
    <<"/", "r", "/">> \o PantsWorkdirSuffix,                         \* "/r/.pants.d"
    <<"/", "t", "m", "p", "/", "b", "u", "i", "l", "d", "-", "o", "u", "t">>,
                                                                     \* "/tmp/build-out"
    PantsWorkdirSuffix \o <<"/">>,                                   \* ".pants.d/"
    <<"/", "r", "/", "p", "a", "n", "t", "s", ".", "d">>,            \* "/r/pants.d"
    <<>> }                                                           \* ""

----------------------------------------------------------------------------
(* Goals *)

\* Registered goals: a name and goal.ordered_task_names().
GoalPool ==
  { [name |-> "compile", ordered_task_names |-> <<"javac", "scalac">>],
    [name |-> "test",    ordered_task_names |-> <<"junit">>],
    [name |-> "bogus",   ordered_task_names |-> <<>>],
    [name |-> "typo",    ordered_task_names |-> <<>>] }

SeqsUpTo(S, n) == UNION { [1..k -> S] : k \in 0..n }

\* [goal.name for goal in self._goals if not goal.ordered_task_names()]
RECURSIVE UnknownGoalsFrom(_, _)
UnknownGoalsFrom(gs, i) ==
  IF i > Len(gs) THEN <<>>
  ELSE (IF gs[i].ordered_task_names = <<>> THEN <<gs[i].name>> ELSE <<>>)
       \o UnknownGoalsFrom(gs, i + 1)

\* Mutant: only the first goal without tasks is reported.
UnknownGoals_FirstOnly(gs) ==
  IF UnknownGoalsFrom(gs, 1) = <<>> THEN <<>> ELSE <<Head(UnknownGoalsFrom(gs, 1))>>

UnknownGoals(gs) == UnknownGoalsFrom(gs, 1)

----------------------------------------------------------------------------
(* Exceptions *)

NoExc == "NoExc"
\* A local not yet assigned, a value not yet returned; an assigned one is <<v>>.
Unset == <<>>

\* What a collaborator called inside the try block may raise.
Raisable == {"KeyboardInterrupt", "SystemExit", "Exception", "TaskError"}

\* Python's hierarchy: KeyboardInterrupt and SystemExit derive from
\* BaseException only; the others from Exception.
IsKeyboardInterrupt(e) == e = "KeyboardInterrupt"
\* Mutant: the handler catches TaskError only.
IsException_TaskErrorOnly(e) == e = "TaskError"

IsException(e) == e \in {"Exception", "TaskError"}

\* The result codes RoundEngine.execute returns.
EngineResults == {0, 1, 2}

\* `if result:`
\* Mutant: `if result == 1:`
Truthy_IsOne(r) == r = 1

Truthy(r) == r # 0

----------------------------------------------------------------------------
(* GoalRunner.run and GoalRunner._execute_engine *)

\* No Variants.merge call is modelled.
MergeIdle ==
  /\ left = <<"None">>
  /\ right = <<"None">>
  /\ merge_result = <<>>
  /\ merge_pc = "idle"

\* No Sources.iter_paths call is modelled.
SourcesIdle ==
  /\ sources = <<>>
  /\ base_path = <<>>
  /\ excluded_files = {}
  /\ position = 0
  /\ evaluated = <<>>
  /\ paths = <<>>
  /\ iter_pc = "idle"

\* No Target.select_configuration call is modelled.
SelectIdle ==
  /\ target_configurations = <<>>
  /\ name = "idle"
  /\ configs = <<>>
  /\ selected = <<>>
  /\ message = <<>>
  /\ select_pc = "idle"

\* No GoalRunnerFactory.setup call is modelled.
SetupIdle ==
  /\ enable_pantsd = FALSE
  /\ help_request = FALSE
  /\ help_result = <<>>
  /\ requested_goals = <<>>
  /\ target_specs = <<>>
  /\ tag = {}
  /\ _goals = <<>>
  /\ _targets = <<>>
  /\ build_graph = {}
  /\ exit_status = <<>>
  /\ setup_events = <<>>
  /\ goal_index = 0
  /\ spec_index = 0
  /\ address_index = 0
  /\ setup_pc = "idle"

RunUnchanged ==
  UNCHANGED <<kill_nailguns, workdir, goals, invalidation_report, walkVars,
              mergeVars, sourcesVars, selectVars, setupVars>>

\* A GoalRunner as GoalRunnerFactory.setup() constructs it, run() called.
InitRun ==
  /\ kill_nailguns \in BOOLEAN
  /\ workdir \in Workdirs
  /\ goals \in SeqsUpTo(GoalPool, MaxGoals)
  /\ invalidation_report \in BOOLEAN
  /\ pc = "run"
  /\ should_kill_nailguns = FALSE
  /\ result = Unset
  /\ engine_result = Unset
  /\ exc = NoExc
  /\ events = <<>>
  /\ errors = <<>>
  /\ returned = Unset
  /\ propagated = NoExc
  \* no walk is modelled
  /\ configurations = [t \in {"A", "B", "C"} |-> <<>>]
  /\ self = "A"
  /\ postorder = TRUE
  /\ visited = {}
  /\ stack = <<>>
  /\ yielded = <<>>
  /\ walk_pc = "idle"
  /\ MergeIdle
  /\ SourcesIdle
  /\ SelectIdle
  /\ SetupIdle

\* run(): should_kill_nailguns = self._kill_nailguns; enter the try block.
RunEnter ==
  /\ pc = "run"
  /\ should_kill_nailguns' = kill_nailguns
  /\ pc' = "check_workdir"
  /\ UNCHANGED <<result, engine_result, exc, events, errors, returned, propagated>>
  /\ RunUnchanged

\* _execute_engine(): the working-directory precondition.
\* Mutant: the suffix is tested without its leading dot.
WorkdirOk_NoDot(w) == EndsWith(w, Tail(PantsWorkdirSuffix))

WorkdirOk(w) == EndsWith(w, PantsWorkdirSuffix)

ExecuteEngineCheckWorkdir ==
  /\ pc = "check_workdir"
  /\ IF ~WorkdirOk(workdir)
       THEN /\ events' = Append(events, "log.error")
            /\ errors' = Append(errors, [kind |-> "workdir", names |-> <<>>])
            /\ result' = <<1>>
            /\ pc' = "check_result"
       ELSE /\ pc' = "check_goals"
            /\ UNCHANGED <<events, errors, result>>
  /\ UNCHANGED <<should_kill_nailguns, engine_result, exc, returned, propagated>>
  /\ RunUnchanged

ExecuteEngineCheckGoals_Raises ==
  /\ pc = "check_goals"
  /\ LET unknown_goals == UnknownGoals(goals) IN
     IF unknown_goals # <<>>
       THEN /\ events' = Append(events, "log.error")
            /\ errors' = Append(errors, [kind |-> "unknown_goals",
                                         names |-> unknown_goals])
            /\ exc' = "TaskError"
            /\ pc' = "except"
       ELSE /\ pc' = "engine"
            /\ UNCHANGED <<events, errors, exc>>
  /\ UNCHANGED <<should_kill_nailguns, result, engine_result, returned, propagated>>
  /\ RunUnchanged

\* _execute_engine(): the unknown-goals precondition.
ExecuteEngineCheckGoals ==
  /\ pc = "check_goals"
  /\ LET unknown_goals == UnknownGoals(goals) IN
     IF unknown_goals # <<>>
       THEN /\ events' = Append(events, "log.error")
            /\ errors' = Append(errors, [kind |-> "unknown_goals",
                                         names |-> unknown_goals])
            /\ result' = <<1>>
            /\ pc' = "check_result"
       ELSE /\ pc' = "engine"
            /\ UNCHANGED <<events, errors, result>>
  /\ UNCHANGED <<should_kill_nailguns, engine_result, exc, returned, propagated>>
  /\ RunUnchanged

\* Where control goes when the try block raises e.
Raise(e) ==
  /\ exc' = e
  /\ pc' = "except"

\* _execute_engine(): result = engine.execute(context, goals); the engine
\* returns a result code or raises.
ExecuteEngineReturns ==
  /\ pc = "engine"
  /\ \E r \in EngineResults : engine_result' = <<r>>
  /\ events' = Append(events, "engine.execute")
  /\ pc' = "report"
  /\ UNCHANGED <<should_kill_nailguns, result, exc, errors, returned, propagated>>
  /\ RunUnchanged

ExecuteEngineRaises ==
  /\ pc = "engine"
  /\ \E e \in Raisable : Raise(e)
  /\ events' = Append(events, "engine.execute")
  /\ UNCHANGED <<should_kill_nailguns, result, engine_result, errors, returned,
                 propagated>>
  /\ RunUnchanged

\* Mutant: the report is emitted for a zero result only.
ExecuteEngineReport_SuccessOnly ==
  /\ pc = "report"
  /\ events' = IF invalidation_report /\ engine_result = <<0>>
                 THEN Append(events, "invalidation_report.report")
                 ELSE events
  /\ result' = engine_result
  /\ pc' = "check_result"
  /\ UNCHANGED <<should_kill_nailguns, engine_result, exc, errors, returned,
                 propagated>>
  /\ RunUnchanged

\* _execute_engine(): if self._invalidation_report: report(); return result.
ExecuteEngineReport ==
  /\ pc = "report"
  /\ events' = IF invalidation_report
                 THEN Append(events, "invalidation_report.report")
                 ELSE events
  /\ result' = engine_result
  /\ pc' = "check_result"
  /\ UNCHANGED <<should_kill_nailguns, engine_result, exc, errors, returned,
                 propagated>>
  /\ RunUnchanged

\* _execute_engine(): invalidation_report.report() itself raises.
ExecuteEngineReportRaises ==
  /\ pc = "report"
  /\ invalidation_report
  /\ events' = Append(events, "invalidation_report.report")
  /\ \E e \in Raisable : Raise(e)
  /\ UNCHANGED <<should_kill_nailguns, result, engine_result, errors, returned,
                 propagated>>
  /\ RunUnchanged

\* Mutant: a failed run kills the nailguns where it records the outcome,
\* kill first.
RunCheckResult_KillsFirst ==
  /\ pc = "check_result"
  /\ events' = IF Truthy(result[1])
                 THEN events \o <<"killall", "set_root_outcome(FAILURE)">>
                 ELSE events
  /\ pc' = "finally"
  /\ UNCHANGED <<should_kill_nailguns, result, engine_result, exc, errors,
                 returned, propagated>>
  /\ RunUnchanged

\* run(): if result: self._run_tracker.set_root_outcome(WorkUnit.FAILURE)
RunCheckResult ==
  /\ pc = "check_result"
  /\ events' = IF Truthy(result[1])
                 THEN Append(events, "set_root_outcome(FAILURE)")
                 ELSE events
  /\ pc' = "finally"
  /\ UNCHANGED <<should_kill_nailguns, result, engine_result, exc, errors,
                 returned, propagated>>
  /\ RunUnchanged

\* Mutant: the KeyboardInterrupt handler does not force the kill.
RunExceptKeyboardInterrupt_NoForce ==
  /\ pc = "except"
  /\ IsKeyboardInterrupt(exc)
  /\ events' = Append(events, "set_root_outcome(FAILURE)")
  /\ pc' = "finally"
  /\ UNCHANGED <<should_kill_nailguns, result, engine_result, exc, errors,
                 returned, propagated>>
  /\ RunUnchanged

\* run(): except KeyboardInterrupt: record FAILURE, force the kill, re-raise.
RunExceptKeyboardInterrupt ==
  /\ pc = "except"
  /\ IsKeyboardInterrupt(exc)
  /\ events' = Append(events, "set_root_outcome(FAILURE)")
  /\ should_kill_nailguns' = TRUE
  /\ pc' = "finally"
  /\ UNCHANGED <<result, engine_result, exc, errors, returned, propagated>>
  /\ RunUnchanged

\* Mutant: the Exception handler forces the kill, as the KeyboardInterrupt
\* handler does.
RunExceptException_ForcesKill ==
  /\ pc = "except"
  /\ ~IsKeyboardInterrupt(exc)
  /\ IsException(exc)
  /\ events' = Append(events, "set_root_outcome(FAILURE)")
  /\ should_kill_nailguns' = TRUE
  /\ pc' = "finally"
  /\ UNCHANGED <<result, engine_result, exc, errors, returned, propagated>>
  /\ RunUnchanged

\* run(): except Exception: record FAILURE, re-raise.
RunExceptException ==
  /\ pc = "except"
  /\ ~IsKeyboardInterrupt(exc)
  /\ IsException(exc)
  /\ events' = Append(events, "set_root_outcome(FAILURE)")
  /\ pc' = "finally"
  /\ UNCHANGED <<should_kill_nailguns, result, engine_result, exc, errors,
                 returned, propagated>>
  /\ RunUnchanged

\* run(): no except clause matches (a BaseException that is neither a
\* KeyboardInterrupt nor an Exception): straight to the finally block.
RunExceptUnhandled ==
  /\ pc = "except"
  /\ ~IsKeyboardInterrupt(exc)
  /\ ~IsException(exc)
  /\ pc' = "finally"
  /\ UNCHANGED <<should_kill_nailguns, result, engine_result, exc, errors,
                 events, returned, propagated>>
  /\ RunUnchanged

\* Mutant: the finally block tests the configured flag, not the local.
RunFinally_ConfiguredFlag ==
  /\ pc = "finally"
  /\ events' = IF kill_nailguns THEN Append(events, "killall") ELSE events
  /\ pc' = IF exc # NoExc THEN "reraise" ELSE "return"
  /\ UNCHANGED <<should_kill_nailguns, result, engine_result, exc, errors, returned,
                 propagated>>
  /\ RunUnchanged

\* run(): finally: if should_kill_nailguns: NailgunProcessGroup().killall()
RunFinally ==
  /\ pc = "finally"
  /\ events' = IF should_kill_nailguns THEN Append(events, "killall") ELSE events
  /\ pc' = IF exc # NoExc THEN "reraise" ELSE "return"
  /\ UNCHANGED <<should_kill_nailguns, result, engine_result, exc, errors, returned,
                 propagated>>
  /\ RunUnchanged

\* run(): the finally block is over and the exception in flight (the bare
\* `raise` of a handler, or an exception no handler caught) leaves run().
RunReraise ==
  /\ pc = "reraise"
  /\ propagated' = exc
  /\ pc' = "done"
  /\ UNCHANGED <<should_kill_nailguns, result, engine_result, exc, errors, events,
                 returned>>
  /\ RunUnchanged

\* run(): return result
RunReturn ==
  /\ pc = "return"
  /\ returned' = result
  /\ pc' = "done"
  /\ UNCHANGED <<should_kill_nailguns, result, engine_result, exc, errors, events,
                 propagated>>
  /\ RunUnchanged

NextRun ==
  \/ RunEnter
  \/ ExecuteEngineCheckWorkdir
  \/ ExecuteEngineCheckGoals
  \/ ExecuteEngineReturns
  \/ ExecuteEngineRaises
  \/ ExecuteEngineReport
  \/ ExecuteEngineReportRaises
  \/ RunCheckResult
  \/ RunExceptKeyboardInterrupt
  \/ RunExceptException
  \/ RunExceptUnhandled
  \/ RunFinally
  \/ RunReraise
  \/ RunReturn

----------------------------------------------------------------------------
(* Target.walk_targets *)

\* The most dependency entries a dependency graph holds in all.
MaxDeps == 3

\* The Target instances of a graph.
Targets == {"A", "B", "C"}

\* Dependencies that are not Target instances (other addressable values).
NonTargets == {"//3rdparty:lib"}

DepValues == Targets \cup NonTargets

\* isinstance(dep, Target)
IsTarget(dep) == dep \in Targets

NoConfigurations == [t \in Targets |-> <<>>]

\* The graph g with one more dependency d of target t: in a new last
\* configuration of t, or at the end of t's last configuration.
AddDependency(g, t, fresh, d) ==
  LET cs == g[t] IN
  IF fresh \/ cs = <<>>
    THEN [g EXCEPT ![t] = Append(cs, [dependencies |-> <<d>>])]
    ELSE [g EXCEPT ![t][Len(cs)].dependencies = Append(@, d)]

\* Every assignment of configurations to the targets with at most n
\* dependency entries.
RECURSIVE Graphs(_)
Graphs(n) ==
  IF n = 0 THEN {NoConfigurations}
  ELSE LET G == Graphs(n - 1) IN
       G \cup { AddDependency(g, t, fresh, d) :
                  g \in G, t \in Targets, fresh \in BOOLEAN, d \in DepValues }

\* for configuration in cs: for dep in configuration.dependencies
RECURSIVE Dependencies(_)
Dependencies(cs) ==
  IF cs = <<>> THEN <<>>
  ELSE Head(cs).dependencies \o Dependencies(Tail(cs))

\* The configurations walk(target) iterates: the code reads
\* self.configurations, whatever the target being walked.
WalkConfigurations(target) == configurations[self]

WalkDependencies(target) == Dependencies(WalkConfigurations(target))

WalkUnchanged ==
  UNCHANGED <<configurations, self, postorder, runVars, mergeVars, sourcesVars,
              selectVars, setupVars>>

\* walk_targets(postorder) called on a target of some dependency graph.
InitWalk ==
  /\ configurations \in Graphs(MaxDeps)
  /\ self \in Targets
  /\ postorder \in BOOLEAN
  /\ visited = {}
  /\ stack = <<>>
  /\ yielded = <<>>
  /\ walk_pc = "call"
  \* no run is modelled
  /\ kill_nailguns = FALSE
  /\ workdir = <<>>
  /\ goals = <<>>
  /\ invalidation_report = FALSE
  /\ pc = "idle"
  /\ should_kill_nailguns = FALSE
  /\ result = Unset
  /\ engine_result = Unset
  /\ exc = NoExc
  /\ events = <<>>
  /\ errors = <<>>
  /\ returned = Unset
  /\ propagated = NoExc
  /\ MergeIdle
  /\ SourcesIdle
  /\ SelectIdle
  /\ SetupIdle

\* Mutant: walk(target) without the visited test.
WalkCall_NoVisitedCheck(target, frames) ==
  /\ visited' = visited \cup {target}
  /\ yielded' = IF ~postorder THEN Append(yielded, target) ELSE yielded
  /\ stack' = Append(frames, [target |-> target, next |-> 1])

\* walk(target): the generator's body up to its loop. A visited target
\* yields nothing; a new one is recorded, yielded first in preorder, and its
\* loop starts.
WalkCall(target, frames) ==
  IF target \notin visited
    THEN /\ visited' = visited \cup {target}
         /\ yielded' = IF ~postorder THEN Append(yielded, target) ELSE yielded
         /\ stack' = Append(frames, [target |-> target, next |-> 1])
    ELSE /\ stack' = frames
         /\ UNCHANGED <<visited, yielded>>

Top == stack[Len(stack)]

\* walk_targets(): visited = set(); for target in walk(self)
WalkStart ==
  /\ walk_pc = "call"
  /\ WalkCall(self, <<>>)
  /\ walk_pc' = "walking"
  /\ WalkUnchanged

\* The innermost walk's loop takes its next dependency, and walks it if it
\* is a Target.
WalkDependency ==
  /\ walk_pc = "walking"
  /\ stack # <<>>
  /\ Top.next <= Len(WalkDependencies(Top.target))
  /\ LET dep == WalkDependencies(Top.target)[Top.next]
         frames == [stack EXCEPT ![Len(stack)].next = @ + 1]
     IN IF IsTarget(dep)
          THEN WalkCall(dep, frames)
          ELSE /\ stack' = frames
               /\ UNCHANGED <<visited, yielded>>
  /\ UNCHANGED walk_pc
  /\ WalkUnchanged

\* The innermost walk's loop is over: it yields its target in postorder and
\* returns; the walk is done when the outermost returns.
WalkReturn ==
  /\ walk_pc = "walking"
  /\ stack # <<>>
  /\ Top.next > Len(WalkDependencies(Top.target))
  /\ yielded' = IF postorder THEN Append(yielded, Top.target) ELSE yielded
  /\ stack' = SubSeq(stack, 1, Len(stack) - 1)
  /\ walk_pc' = IF Len(stack) = 1 THEN "done" ELSE "walking"
  /\ UNCHANGED visited
  /\ WalkUnchanged

NextWalk ==
  \/ WalkStart
  \/ WalkDependency
  \/ WalkReturn

----------------------------------------------------------------------------
(* Variants.merge *)

\* The most (key, value) pairs one argument of merge holds.
MaxPairs == 2

\* Variant keys, as numbers in the order Python sorts the key strings.
VariantKeys == 1..3

VariantValues == {"x", "y"}

\* Python's None, and a tuple (or list) of pairs.
None == <<"None">>
Tuple(pairs) == <<"tuple", pairs>>

\* The sequences of at most n pairs whose keys are pairwise different.
PairSeqs(n) ==
  { ps \in SeqsUpTo(VariantKeys \X VariantValues, n) :
      \A i, j \in DOMAIN ps : ps[i][1] = ps[j][1] => i = j }

\* What merge is given for left or right: None or an iterable of pairs.
Iterables == {None} \cup {Tuple(ps) : ps \in PairSeqs(MaxPairs)}

\* `not v`: None and the empty iterable are false.
Falsy(v) == v = None \/ v[2] = <<>>

\* for key, value in pairs: d[key] = value
RECURSIVE DictUpdate(_, _)
DictUpdate(d, pairs) ==
  IF pairs = <<>> THEN d
  ELSE LET key == Head(pairs)[1]
           value == Head(pairs)[2]
       IN DictUpdate([k \in DOMAIN d \cup {key} |-> IF k = key THEN value ELSE d[k]],
                     Tail(pairs))

\* dict(pairs)
Dict(pairs) == DictUpdate(<<>>, pairs)

\* sorted(d.items(), key=lambda x: x[0])
RECURSIVE SortedItems(_)
SortedItems(d) ==
  IF DOMAIN d = {} THEN <<>>
  ELSE LET k == CHOOSE m \in DOMAIN d : \A n \in DOMAIN d : m <= n
       IN <<<<k, d[k]>>>> \o SortedItems([n \in DOMAIN d \ {k} |-> d[n]])

\* Variants.merge(left, right)
merge(l, r) ==
  IF Falsy(l)
    THEN (IF ~Falsy(r) THEN Tuple(r[2]) ELSE None)
    ELSE IF Falsy(r)
           THEN Tuple(l[2])
           ELSE Tuple(SortedItems(DictUpdate(Dict(l[2]), r[2])))

RunIdle ==
  /\ kill_nailguns = FALSE
  /\ workdir = <<>>
  /\ goals = <<>>
  /\ invalidation_report = FALSE
  /\ pc = "idle"
  /\ should_kill_nailguns = FALSE
  /\ result = Unset
  /\ engine_result = Unset
  /\ exc = NoExc
  /\ events = <<>>
  /\ errors = <<>>
  /\ returned = Unset
  /\ propagated = NoExc

WalkIdle ==
  /\ configurations = NoConfigurations
  /\ self = "A"
  /\ postorder = TRUE
  /\ visited = {}
  /\ stack = <<>>
  /\ yielded = <<>>
  /\ walk_pc = "idle"

\* merge(left, right) is called.
InitMerge ==
  /\ left \in Iterables
  /\ right \in Iterables
  /\ merge_result = <<>>
  /\ merge_pc = "call"
  /\ RunIdle
  /\ WalkIdle
  /\ SourcesIdle
  /\ SelectIdle
  /\ SetupIdle

\* merge returns.
MergeReturn ==
  /\ merge_pc = "call"
  /\ merge_result' = merge(left, right)
  /\ merge_pc' = "returned"
  /\ UNCHANGED <<left, right, runVars, walkVars, sourcesVars, selectVars, setupVars>>

NextMerge ==
  \/ MergeReturn

----------------------------------------------------------------------------
(* Sources.iter_paths (targets.py).  Paths are sequences of characters so
   that os.path.splitext and os.path.join are computed, not assumed. *)

MaxFiles == 2

X_PY == <<"x", ".", "p", "y">>
Y_PY == <<"y", ".", "p", "y">>
A_TXT == <<"a", ".", "t", "x", "t">>
README == <<"R", "E", "A", "D", "M", "E">>
SUB_Y_PY == <<"s", "u", "b", "/", "y", ".", "p", "y">>
DOT_PY == <<".", "p", "y">>
DOT_TXT == <<".", "t", "x", "t">>
ROOT == <<>>
SRC == <<"s", "r", "c">>
LIB == <<"l", "i", "b">>

\* Relative paths a BUILD file lists in `files`.
FilePool == {X_PY, Y_PY, A_TXT, README}

\* The values of the abstract property `extensions` of the Sources subclasses.
ExtensionSets == {{}, {DOT_PY}, {DOT_PY, DOT_TXT}}

\* address is None, or an Address whose spec_path is the BUILD file directory
\* ('' for the repository root).
NoAddress == <<>>
Address(spec_path) == <<spec_path>>
Addresses == {NoAddress, Address(ROOT), Address(SRC)}

BasePaths == {None, ROOT, LIB}

NoExcludes == <<>>

\* os.path.splitext(f)[1]: the suffix from the last dot of the last path
\* component, empty when there is no dot or only leading dots before it.
LastIndexOf(f, c) ==
  LET found == {i \in DOMAIN f : f[i] = c}
  IN  IF found = {} THEN 0 ELSE CHOOSE i \in found : \A k \in found : k <= i

splitext(f) ==
  LET sepIndex == LastIndexOf(f, "/")
      dotIndex == LastIndexOf(f, ".")
  IN  IF /\ dotIndex > sepIndex
         /\ \E i \in (sepIndex + 1)..(dotIndex - 1) : f[i] # "."
      THEN SubSeq(f, dotIndex, Len(f))
      ELSE <<>>

\* os.path.join(base_path, rel_path) for a non-empty base and a relative path.
join(base, rel_path) ==
  IF base[Len(base)] = "/" THEN base \o rel_path ELSE base \o <<"/">> \o rel_path

_accept_file(s, f) == splitext(f) \in s.extensions

\* The constructor raises ValueError for a listed file it does not accept.
Constructs(s) ==
  (s.files # <<>> /\ s.extensions # {}) => \A i \in DOMAIN s.files : _accept_file(s, s.files[i])

\* Sources without excludes; only the top-level value carries glob patterns
\* when wantGlobs is TRUE.
PlainSources(n, wantGlobs) ==
  { s \in [address : Addresses,
           files : SeqsUpTo(FilePool, n),
           globs : IF wantGlobs THEN BOOLEAN ELSE {FALSE},
           rglobs : IF wantGlobs THEN BOOLEAN ELSE {FALSE},
           zglobs : IF wantGlobs THEN BOOLEAN ELSE {FALSE},
           extensions : ExtensionSets,
           excludes : {NoExcludes}] : Constructs(s) }

\* Every Sources value with at most n listed files in all, its excludes included.
AllSources(n) ==
  PlainSources(n, TRUE) \cup
  { [s EXCEPT !.excludes = <<e>>] :
      <<s, e>> \in { se \in PlainSources(n, TRUE) \X PlainSources(n, FALSE) :
                       Len(se[1].files) + Len(se[2].files) <= n } }

\* What the fileset wrappers find on disk under a base path for the pattern.
Fileset(wrapper, base) ==
  CASE wrapper = "Globs" -> <<A_TXT, X_PY>>
    [] wrapper = "RGlobs" -> <<X_PY, SUB_Y_PY>>
    [] wrapper = "ZGlobs" -> <<SUB_Y_PY, README>>

\* base_path = self.address.spec_path if self.address else base_path
BasePath(s, base) == IF s.address # NoAddress THEN s.address[1] ELSE base

\* not base_path
NoBasePath(base) == base = None \/ base = <<>>

\* The fileset wrappers file_sources() calls, in its order: those of the
\* patterns that are specified.
Wrappers(s) ==
  (IF s.globs THEN <<"Globs">> ELSE <<>>)
    \o (IF s.rglobs THEN <<"RGlobs">> ELSE <<>>)
    \o (IF s.zglobs THEN <<"ZGlobs">> ELSE <<>>)

\* The wrappers the lazy chain has called once it has produced its i-th path:
\* file_sources() is a generator, resumed when the previous source runs out.
RECURSIVE WrappersReached(_, _, _, _)
WrappersReached(ws, base, offset, i) ==
  IF ws = <<>> \/ offset >= i THEN <<>>
  ELSE <<Head(ws)>>
       \o WrappersReached(Tail(ws), base, offset + Len(Fileset(Head(ws), base)), i)

file_sources_GlobsFirst(s, base) ==
  (IF s.globs THEN Fileset("Globs", base) ELSE <<>>)
    \o s.files
    \o (IF s.rglobs THEN Fileset("RGlobs", base) ELSE <<>>)
    \o (IF s.zglobs THEN Fileset("ZGlobs", base) ELSE <<>>)

\* itertools.chain.from_iterable(file_sources())
file_sources(s, base) ==
  s.files
    \o (IF s.globs THEN Fileset("Globs", base) ELSE <<>>)
    \o (IF s.rglobs THEN Fileset("RGlobs", base) ELSE <<>>)
    \o (IF s.zglobs THEN Fileset("ZGlobs", base) ELSE <<>>)

Range(seq) == {seq[i] : i \in DOMAIN seq}

\* The rel_path at index i is yielded.
Yields(s, base, excluded, rel_paths, i) ==
  /\ _accept_file(s, rel_paths[i])
  /\ join(base, rel_paths[i]) \notin excluded

RECURSIVE YieldedFrom(_, _, _, _, _)
YieldedFrom(s, base, excluded, rel_paths, i) ==
  IF i > Len(rel_paths) THEN <<>>
  ELSE (IF Yields(s, base, excluded, rel_paths, i)
        THEN <<join(base, rel_paths[i])>> ELSE <<>>)
       \o YieldedFrom(s, base, excluded, rel_paths, i + 1)

ValueError == [raised |-> TRUE, paths |-> <<>>]
Iterated(ps) == [raised |-> FALSE, paths |-> ps]

\* list(s.iter_paths(base)), or the ValueError it raises.
RECURSIVE iter_paths(_, _)
iter_paths(s, base) ==
  LET resolved == BasePath(s, base)
  IN  IF NoBasePath(resolved) THEN ValueError
      ELSE LET excludes == IF s.excludes # NoExcludes
                           THEN iter_paths(s.excludes[1], resolved)
                           ELSE Iterated(<<>>)
           IN  IF excludes.raised THEN ValueError
               ELSE Iterated(YieldedFrom(s, resolved, Range(excludes.paths),
                                         file_sources(s, resolved), 1))

SourcesUnchanged ==
  UNCHANGED <<sources, base_path, runVars, walkVars, mergeVars, selectVars, setupVars>>

InitSources ==
  /\ sources \in AllSources(MaxFiles)
  /\ base_path \in BasePaths
  /\ excluded_files = {}
  /\ position = 0
  /\ evaluated = <<>>
  /\ paths = <<>>
  /\ iter_pc = "call"
  /\ RunIdle
  /\ WalkIdle
  /\ MergeIdle
  /\ SelectIdle
  /\ SetupIdle

\* Lines 122-124: no base path can be resolved.
IterPathsNoBasePath ==
  /\ iter_pc = "call"
  /\ NoBasePath(BasePath(sources, base_path))
  /\ iter_pc' = "ValueError"
  /\ UNCHANGED <<excluded_files, position, evaluated, paths>>
  /\ SourcesUnchanged

\* Line 126: the excludes are iterated into a frozenset.
IterPathsExcludes ==
  /\ iter_pc = "call"
  /\ ~NoBasePath(BasePath(sources, base_path))
  /\ LET excludes == IF sources.excludes # NoExcludes
                     THEN iter_paths(sources.excludes[1], BasePath(sources, base_path))
                     ELSE Iterated(<<>>)
     IN  /\ ~excludes.raised
         /\ excluded_files' = Range(excludes.paths)
  /\ iter_pc' = "iterating"
  /\ UNCHANGED <<position, evaluated, paths>>
  /\ SourcesUnchanged

\* Line 126: iterating the excludes raises, and the error propagates.
IterPathsExcludesRaise ==
  /\ iter_pc = "call"
  /\ ~NoBasePath(BasePath(sources, base_path))
  /\ sources.excludes # NoExcludes
  /\ iter_paths(sources.excludes[1], BasePath(sources, base_path)).raised
  /\ iter_pc' = "ValueError"
  /\ UNCHANGED <<excluded_files, position, evaluated, paths>>
  /\ SourcesUnchanged

\* Lines 138-142: the generator runs to its next yield.
IterPathsYield ==
  /\ iter_pc = "iterating"
  /\ LET base == BasePath(sources, base_path)
         rel_paths == file_sources(sources, base)
     IN  \E i \in DOMAIN rel_paths :
           /\ i > position
           /\ Yields(sources, base, excluded_files, rel_paths, i)
           /\ \A k \in (position + 1)..(i - 1) :
                ~Yields(sources, base, excluded_files, rel_paths, k)
           /\ position' = i
           /\ evaluated' = WrappersReached(Wrappers(sources), base, Len(sources.files), i)
           /\ paths' = Append(paths, join(base, rel_paths[i]))
  /\ UNCHANGED <<excluded_files, iter_pc>>
  /\ SourcesUnchanged

\* Lines 138-142: no further path is accepted; the generator is exhausted.
IterPathsExhausted ==
  /\ iter_pc = "iterating"
  /\ LET base == BasePath(sources, base_path)
         rel_paths == file_sources(sources, base)
     IN  /\ \A k \in (position + 1)..Len(rel_paths) :
              ~Yields(sources, base, excluded_files, rel_paths, k)
         /\ position' = Len(rel_paths)
         /\ evaluated' = Wrappers(sources)
  /\ iter_pc' = "done"
  /\ UNCHANGED <<excluded_files, paths>>
  /\ SourcesUnchanged

NextSources ==
  \/ IterPathsNoBasePath
  \/ IterPathsExcludes
  \/ IterPathsExcludesRaise
  \/ IterPathsYield
  \/ IterPathsExhausted

----------------------------------------------------------------------------
(* Target.select_configuration (targets.py) *)

MaxConfigs == 3

\* A configuration without a name (its name is None).
NoName == ""
ConfigNames == {NoName, "default", "other"}
ConfigTypes == {"JvmConfiguration", "PythonConfiguration"}
Configurations == [name : ConfigNames, type : ConfigTypes]

\* tuple(config for config in self.configurations if config.name == name)
RECURSIVE Named(_, _)
Named(cs, n) ==
  IF cs = <<>> THEN <<>>
  ELSE (IF Head(cs).name = n THEN <<Head(cs)>> ELSE <<>>) \o Named(Tail(cs), n)

NotSingle_OnlyWhenNone(cs) == Len(cs) = 0

\* len(configs) != 1
NotSingle(cs) == Len(cs) # 1

SelectUnchanged ==
  UNCHANGED <<target_configurations, name, runVars, walkVars, mergeVars,
              sourcesVars, setupVars>>

InitSelect ==
  /\ target_configurations \in SeqsUpTo(Configurations, MaxConfigs)
  /\ name \in ConfigNames
  /\ configs = <<>>
  /\ selected = <<>>
  /\ message = <<>>
  /\ select_pc = "call"
  /\ RunIdle
  /\ WalkIdle
  /\ MergeIdle
  /\ SourcesIdle
  /\ SetupIdle

\* Line 179: the configurations of the requested name are collected.
SelectFilter ==
  /\ select_pc = "call"
  /\ configs' = Named(target_configurations, name)
  /\ select_pc' = "filtered"
  /\ UNCHANGED <<selected, message>>
  /\ SelectUnchanged

\* Lines 180-185: ConfigurationNotFound, its message listing `configs`.
SelectRaise ==
  /\ select_pc = "filtered"
  /\ NotSingle(configs)
  /\ message' = configs
  /\ select_pc' = "ConfigurationNotFound"
  /\ UNCHANGED <<configs, selected>>
  /\ SelectUnchanged

\* Line 186: return configs[0]
SelectReturn ==
  /\ select_pc = "filtered"
  /\ ~NotSingle(configs)
  /\ selected' = <<configs[1]>>
  /\ select_pc' = "returned"
  /\ UNCHANGED <<configs, message>>
  /\ SelectUnchanged

NextSelect ==
  \/ SelectFilter
  \/ SelectRaise
  \/ SelectReturn

----------------------------------------------------------------------------
(* GoalRunnerFactory.setup (goal_runner.py): _maybe_launch_pantsd,
   _expand_goals, _expand_specs and the assembly of the Context.  Every call
   on a collaborator is recorded in setup_events as <<callee, argument>>. *)

MaxSpecs == 2

GoalNames == {"compile", "test"}

\* The repository the specs are resolved in: three targets in two directories.
TargetAddresses == {"a:a", "a:b", "b:b"}

\* target.tags
Tags(target) ==
  CASE target = "a:a" -> {"x"}
    [] target = "a:b" -> {}
    [] target = "b:b" -> {"x", "y"}

\* The dependency closure BuildGraph.inject_address_closure adds for an address.
Closure(address) ==
  CASE address = "a:a" -> {"a:a", "a:b"}
    [] address = "a:b" -> {"a:b"}
    [] address = "b:b" -> {"b:b", "a:a", "a:b"}

\* The command-line specs and the addresses parse_addresses yields for each:
\* a single address, the siblings of a directory, every descendant, none.
SpecPool == {"a:a", "a:", "::", "c:"}

parse_addresses(spec) ==
  CASE spec = "a:a" -> <<"a:a">>
    [] spec = "a:" -> <<"a:a", "a:b">>
    [] spec = "::" -> <<"a:a", "a:b", "b:b">>
    [] spec = "c:" -> <<>>

\* The values of the --tag option: none, require a tag, forbid a tag.
TagExpressions ==
  {{}, {[include |-> TRUE, tag |-> "x"]}, {[include |-> FALSE, tag |-> "y"]}}

\* filter_for_tag(tag)(target)
filter_for_tag(t, target) == t \in Tags(target)

\* wrap_filters(create_filters(self._tag, filter_for_tag))(target): every
\* expression holds, a negated one by the absence of its tag.
tag_filter(target) ==
  \A e \in tag : filter_for_tag(e.tag, target) <=> e.include

\* What PantsDaemonLauncher.maybe_launch() can come to; either way it returns.
MaybeLaunch == {"launched", "failed"}

\* What help_printer.print_help() returns.
HelpResults == {0, 1}

\* The object Goal.by_name(goal) returns.
Goal(goal) == <<"Goal", goal>>

Call(callee, argument) == <<callee, argument>>

\* [Goal.by_name(goal) for goal in goals], and the calls it makes.
ByName(gs) == [i \in DOMAIN gs |-> Goal(gs[i])]
ByNameCalls(gs) == [i \in DOMAIN gs |-> Call("Goal.by_name", gs[i])]

_targets_append_IfAbsent(targets, target) ==
  IF \E i \in DOMAIN targets : targets[i] = target
  THEN targets ELSE Append(targets, target)

\* self._targets.append(target)
_targets_append(targets, target) == Append(targets, target)

SetupUnchanged ==
  UNCHANGED <<enable_pantsd, help_request, requested_goals, target_specs, tag,
              runVars, walkVars, mergeVars, sourcesVars, selectVars>>

InitSetup ==
  /\ enable_pantsd \in BOOLEAN
  /\ help_request \in BOOLEAN
  /\ help_result = <<>>
  /\ requested_goals \in SeqsUpTo(GoalNames, MaxGoals)
  /\ target_specs \in SeqsUpTo(SpecPool, MaxSpecs)
  /\ tag \in TagExpressions
  /\ _goals = <<>>
  /\ _targets = <<>>
  /\ build_graph = {}
  /\ exit_status = <<>>
  /\ setup_events = <<>>
  /\ goal_index = 0
  /\ spec_index = 0
  /\ address_index = 0
  /\ setup_pc = "launch"
  /\ RunIdle
  /\ WalkIdle
  /\ MergeIdle
  /\ SourcesIdle
  /\ SelectIdle

SetupLaunchPantsd_FailureAborts ==
  /\ setup_pc = "launch"
  /\ enable_pantsd
  /\ \E outcome \in MaybeLaunch :
       /\ setup_events' = Append(setup_events, Call("maybe_launch", outcome))
       /\ setup_pc' = IF outcome = "failed" THEN "raised" ELSE "resolve"
  /\ goal_index' = 1
  /\ UNCHANGED <<help_result, _goals, _targets, build_graph, exit_status,
                 spec_index, address_index>>
  /\ SetupUnchanged

\* Lines 238-243 and 249: pantsd is enabled and its launcher is called.
SetupLaunchPantsd ==
  /\ setup_pc = "launch"
  /\ enable_pantsd
  /\ \E outcome \in MaybeLaunch :
       setup_events' = Append(setup_events, Call("maybe_launch", outcome))
  /\ setup_pc' = "resolve"
  /\ goal_index' = 1
  /\ UNCHANGED <<help_result, _goals, _targets, build_graph, exit_status,
                 spec_index, address_index>>
  /\ SetupUnchanged

\* Lines 238-240 and 249: pantsd is not enabled.
SetupSkipPantsd ==
  /\ setup_pc = "launch"
  /\ ~enable_pantsd
  /\ setup_pc' = "resolve"
  /\ goal_index' = 1
  /\ UNCHANGED <<help_result, _goals, _targets, build_graph, exit_status,
                 setup_events, spec_index, address_index>>
  /\ SetupUnchanged

\* Lines 208-214: a goal is tried as a spec; a warning when it resolves, and
\* the AddressLookupError is swallowed when it does not.
ExpandGoalsResolve ==
  /\ setup_pc = "resolve"
  /\ goal_index <= Len(requested_goals)
  /\ \E resolves \in BOOLEAN :
       setup_events' =
         setup_events
           \o <<Call("resolve_spec", requested_goals[goal_index])>>
           \o (IF resolves
               THEN <<Call("logger.warning", requested_goals[goal_index])>>
               ELSE <<>>)
  /\ goal_index' = goal_index + 1
  /\ UNCHANGED <<help_result, _goals, _targets, build_graph, exit_status,
                 spec_index, address_index, setup_pc>>
  /\ SetupUnchanged

ExpandGoalsHelp_ExiterReturns ==
  /\ setup_pc = "resolve"
  /\ goal_index > Len(requested_goals)
  /\ help_request
  /\ \E r \in HelpResults :
       /\ help_result' = <<r>>
       /\ exit_status' = <<r>>
  /\ setup_events' = setup_events \o <<Call("print_help", ""), Call("exiter", "")>>
                       \o ByNameCalls(requested_goals)
  /\ _goals' = _goals \o ByName(requested_goals)
  /\ setup_pc' = "specs"
  /\ spec_index' = 1
  /\ UNCHANGED <<_targets, build_graph, goal_index, address_index>>
  /\ SetupUnchanged

\* Lines 216-219: help is printed and the exiter, which exits (sys.exit by
\* default), gets the printer's result; nothing of setup runs after it.
ExpandGoalsHelp ==
  /\ setup_pc = "resolve"
  /\ goal_index > Len(requested_goals)
  /\ help_request
  /\ \E r \in HelpResults :
       /\ help_result' = <<r>>
       /\ exit_status' = <<r>>
  /\ setup_events' = setup_events \o <<Call("print_help", ""), Call("exiter", "")>>
  /\ setup_pc' = "exited"
  /\ UNCHANGED <<_goals, _targets, build_graph, goal_index, spec_index,
                 address_index>>
  /\ SetupUnchanged

\* Lines 216 and 221: without a help request the goals are materialized.
ExpandGoalsExtend ==
  /\ setup_pc = "resolve"
  /\ goal_index > Len(requested_goals)
  /\ ~help_request
  /\ setup_events' = setup_events \o ByNameCalls(requested_goals)
  /\ _goals' = _goals \o ByName(requested_goals)
  /\ setup_pc' = "specs"
  /\ spec_index' = 1
  /\ UNCHANGED <<help_result, _targets, build_graph, exit_status, goal_index,
                 address_index>>
  /\ SetupUnchanged

\* Lines 231-232: the next spec is handed to the spec parser.
ExpandSpecsParse ==
  /\ setup_pc = "specs"
  /\ spec_index <= Len(target_specs)
  /\ address_index = 0
  /\ setup_events' = Append(setup_events, Call("parse_addresses", target_specs[spec_index]))
  /\ address_index' = 1
  /\ UNCHANGED <<help_result, _goals, _targets, build_graph, exit_status,
                 goal_index, spec_index, setup_pc>>
  /\ SetupUnchanged

\* Lines 232-236: the closure of the next address is injected, its target is
\* fetched and kept when the tag filter accepts it.
ExpandSpecsAddress ==
  /\ setup_pc = "specs"
  /\ spec_index <= Len(target_specs)
  /\ address_index \in DOMAIN parse_addresses(target_specs[spec_index])
  /\ LET address == parse_addresses(target_specs[spec_index])[address_index]
     IN  /\ build_graph' = build_graph \cup Closure(address)
         /\ setup_events' = setup_events \o <<Call("inject_address_closure", address),
                                              Call("get_target", address)>>
         /\ _targets' = IF tag_filter(address)
                        THEN _targets_append(_targets, address)
                        ELSE _targets
  /\ address_index' = address_index + 1
  /\ UNCHANGED <<help_result, _goals, exit_status, goal_index, spec_index, setup_pc>>
  /\ SetupUnchanged

\* Lines 231-232: the addresses of a spec are exhausted.
ExpandSpecsNextSpec ==
  /\ setup_pc = "specs"
  /\ spec_index <= Len(target_specs)
  /\ address_index > Len(parse_addresses(target_specs[spec_index]))
  /\ spec_index' = spec_index + 1
  /\ address_index' = 0
  /\ UNCHANGED <<help_result, _goals, _targets, build_graph, exit_status,
                 setup_events, goal_index, setup_pc>>
  /\ SetupUnchanged

\* Lines 255-273: scm info, reporting and the Context, once the specs are done.
SetupContext ==
  /\ setup_pc = "specs"
  /\ spec_index > Len(target_specs)
  /\ setup_events' = setup_events \o <<Call("add_scm_info", ""),
                                       Call("update_reporting", ""),
                                       Call("Context", "")>>
  /\ setup_pc' = "done"
  /\ UNCHANGED <<help_result, _goals, _targets, build_graph, exit_status,
                 goal_index, spec_index, address_index>>
  /\ SetupUnchanged

NextSetup ==
  \/ SetupLaunchPantsd
  \/ SetupSkipPantsd
  \/ ExpandGoalsResolve
  \/ ExpandGoalsHelp
  \/ ExpandGoalsExtend
  \/ ExpandSpecsParse
  \/ ExpandSpecsAddress
  \/ ExpandSpecsNextSpec
  \/ SetupContext

----------------------------------------------------------------------------
(* Specifications *)

SpecRun == InitRun /\ [][NextRun]_vars

SpecWalk == InitWalk /\ [][NextWalk]_vars

SpecMerge == InitMerge /\ [][NextMerge]_vars

SpecSources == InitSources /\ [][NextSources]_vars

SpecSelect == InitSelect /\ [][NextSelect]_vars

SpecSetup == InitSetup /\ [][NextSetup]_vars

----------------------------------------------------------------------------
(* Properties of GoalRunner.run, checked under SpecRun *)

Failure == "set_root_outcome(FAILURE)"
Killall == "killall"
Engine == "engine.execute"

\* How many times x was called on a collaborator.
Count(seq, x) == Cardinality({i \in DOMAIN seq : seq[i] = x})

Called(x) == Count(events, x) > 0

\* Every call a comes before every call b.
Precedes(seq, a, b) ==
  \A i, j \in DOMAIN seq : (seq[i] = a /\ seq[j] = b) => i < j

\* C2: a KeyboardInterrupt raised during execution is never swallowed and no
\* result code is returned; when it leaves run(), whatever the configured
\* kill flag, FAILURE has been recorded, then killall has been called, and
\* what leaves is that same KeyboardInterrupt.
C2_CancellationRecordsKillsPropagates ==
  IsKeyboardInterrupt(exc) =>
    /\ returned = Unset
    /\ (pc = "done" => propagated = exc)
    /\ (propagated # NoExc =>
          /\ propagated = "KeyboardInterrupt"
          /\ Called(Failure)
          /\ Called(Killall)
          /\ Precedes(events, Failure, Killall))

C2_Witness ==
  /\ pc = "done"
  /\ ~kill_nailguns
  /\ propagated = "KeyboardInterrupt"
  /\ events = <<Engine, Failure, Killall>>

\* C3 as stated: whenever a non-cancellation exception leaves run(), killall
\* has been called, for every configuration.
C3_AsStated ==
  (propagated # NoExc /\ propagated # "KeyboardInterrupt") => Called(Killall)

\* C3 amended: when a non-cancellation exception is about to leave, or has
\* left, run(), killall has been called if and only if the configured kill
\* flag is true.
C3_CleanupBeforeExceptionIffFlag ==
  (pc \in {"reraise", "done"} /\ exc # NoExc /\ exc # "KeyboardInterrupt") =>
    (Called(Killall) <=> kill_nailguns)

C3_Witness ==
  /\ pc = "done"
  /\ ~kill_nailguns
  /\ propagated = "Exception"
  /\ ~Called(Killall)

\* C4: on every path, every recording of FAILURE comes before killall, and
\* none comes after it.
C4_OutcomeBeforeKillall == Precedes(events, Failure, Killall)

C4_Witness ==
  /\ pc = "done"
  /\ returned = <<1>>
  /\ Called(Engine)
  /\ events[Len(events) - 1] = Failure
  /\ events[Len(events)] = Killall

\* C5 as stated: every exception other than a KeyboardInterrupt is recorded
\* as FAILURE exactly once, cleaned up after by the configured flag alone,
\* and propagated unchanged.
C5_AsStated ==
  (pc = "done" /\ exc # NoExc /\ exc # "KeyboardInterrupt") =>
    /\ Count(events, Failure) = 1
    /\ (Called(Killall) <=> kill_nailguns)
    /\ propagated = exc

\* C5 amended: an instance of Exception raised during execution is recorded
\* as FAILURE exactly once, killall is called iff the configured flag is
\* true, and the same exception leaves run(); a SystemExit (a BaseException
\* that no handler catches) leaves run() the same way with no FAILURE
\* recorded.
C5_ExceptionRecordedOnceFlagOnly ==
  /\ (pc = "done" /\ exc \in {"Exception", "TaskError"}) =>
       /\ Count(events, Failure) = 1
       /\ (Called(Killall) <=> kill_nailguns)
       /\ propagated = exc
       /\ returned = Unset
  /\ (pc = "done" /\ exc = "SystemExit") =>
       /\ Count(events, Failure) = 0
       /\ (Called(Killall) <=> kill_nailguns)
       /\ propagated = exc
       /\ returned = Unset

C5_Witness ==
  /\ pc = "done"
  /\ kill_nailguns
  /\ propagated = "TaskError"
  /\ events = <<Engine, Failure, Killall>>

\* C6: when run() returns, it returns the result code of execution (the
\* engine's, when the engine ran), and FAILURE was recorded exactly once if
\* that code is nonzero and never if it is 0.
C6_ResultReturnedFailureIffNonzero ==
  (pc = "done" /\ returned # Unset) =>
    /\ propagated = NoExc
    /\ returned = result
    /\ (Called(Engine) => returned = engine_result)
    /\ Count(events, Failure) = (IF returned = <<0>> THEN 0 ELSE 1)

C6_Witness ==
  /\ pc = "done"
  /\ returned = <<2>>
  /\ engine_result = <<2>>
  /\ Count(events, Failure) = 1

\* C7: killall is called at most once, never before the finally block, and
\* once the finally block is over it has been called if and only if the
\* configured kill flag is true or a KeyboardInterrupt was raised.
C7_KillallOnceIffFlagOrCancelled ==
  /\ Count(events, Killall) <= 1
  /\ IF pc \in {"return", "reraise", "done"}
       THEN Called(Killall) <=> (kill_nailguns \/ exc = "KeyboardInterrupt")
       ELSE ~Called(Killall)

C7_Witness ==
  /\ pc = "done"
  /\ kill_nailguns
  /\ returned = <<1>>
  /\ engine_result = <<1>>
  /\ Count(events, Killall) = 1

\* C8: with a working directory that does not end in '.pants.d', execution
\* goes from the workdir test straight to its result 1: the goals are not
\* examined, the engine is never invoked, and run() returns 1.
C8_BadWorkdirReturnsOneNoEngine ==
  ~EndsWith(workdir, <<".", "p", "a", "n", "t", "s", ".", "d">>) =>
    /\ ~Called(Engine)
    /\ pc \notin {"check_goals", "engine", "report", "except", "reraise"}
    /\ result \in {Unset, <<1>>}
    /\ (pc \notin {"run", "check_workdir"} =>
          /\ result = <<1>>
          /\ errors = <<[kind |-> "workdir", names |-> <<>>]>>)
    /\ (pc = "done" => returned = <<1>>)

\* "/tmp/build-out", with goals that are all known
C8_Witness ==
  /\ pc = "done"
  /\ Len(workdir) = 14
  /\ Len(goals) = MaxGoals
  /\ \A i \in DOMAIN goals : goals[i].ordered_task_names # <<>>
  /\ returned = <<1>>
  /\ ~Called(Engine)

\* The names of the goals without ordered task names, in the order requested.
NamesWithoutTasks(gs) ==
  LET unknown == SelectSeq(gs, LAMBDA g : Len(g.ordered_task_names) = 0)
  IN [i \in DOMAIN unknown |-> unknown[i].name]

\* C9: with a valid working directory and some goal without ordered task
\* names, execution results in 1 without invoking the engine, and the one
\* error reported lists every such goal; the engine is invoked only when
\* there is no such goal.
C9_UnknownGoalsAllListedNoEngine ==
  EndsWith(workdir, <<".", "p", "a", "n", "t", "s", ".", "d">>) =>
    /\ (Called(Engine) => NamesWithoutTasks(goals) = <<>>)
    /\ (NamesWithoutTasks(goals) # <<>> =>
          /\ pc \notin {"engine", "report", "except", "reraise"}
          /\ (pc \notin {"run", "check_workdir", "check_goals"} =>
                /\ result = <<1>>
                /\ errors = <<[kind |-> "unknown_goals",
                               names |-> NamesWithoutTasks(goals)]>>)
          /\ (pc = "done" => returned = <<1>>))
    /\ (NamesWithoutTasks(goals) = <<>> => errors = <<>>)

C9_Witness ==
  /\ pc = "done"
  /\ EndsWith(workdir, PantsWorkdirSuffix)
  /\ Len(errors) = 1
  /\ Len(errors[1].names) = 2
  /\ errors[1].names[1] # errors[1].names[2]
  /\ returned = <<1>>
  /\ ~Called(Engine)

----------------------------------------------------------------------------
(* Properties of Target.walk_targets, checked under SpecWalk *)

\* The targets among the dependencies of t's own configurations.
TargetDependencies(t) ==
  LET deps == Dependencies(configurations[t])
  IN {deps[i] : i \in DOMAIN deps} \cap Targets

\* The targets reachable from those of S through at most n more edges.
RECURSIVE ReachableWithin(_, _)
ReachableWithin(S, n) ==
  IF n = 0 THEN S
  ELSE ReachableWithin(S \cup UNION {TargetDependencies(t) : t \in S}, n - 1)

\* The targets reachable from t, t included.
Reachable(t) == ReachableWithin({t}, Cardinality(Targets))

Yielded == {yielded[i] : i \in DOMAIN yielded}

\* The 3-node cycle A -> B -> C -> A.
ThreeCycle ==
  /\ TargetDependencies("A") = {"B"}
  /\ TargetDependencies("B") = {"C"}
  /\ TargetDependencies("C") = {"A"}

\* C1 as stated: a finished walk has yielded every target reachable from the
\* target it was called on.
C1_AsStated ==
  walk_pc = "done" => Reachable(self) \subseteq Yielded

\* C1 as stated, on the 3-node cycle walked from A.
C1_ThreeCycleAsStated ==
  (walk_pc = "done" /\ ThreeCycle /\ self = "A") => Yielded = {"A", "B", "C"}

\* The loops a walk still owes: what is left of each active frame's loop and
\* its return, a whole loop and return per target not yet visited, and the
\* first call.
RECURSIVE FramesLeft(_)
FramesLeft(frames) ==
  IF frames = <<>> THEN 0
  ELSE (Len(WalkDependencies(Head(frames).target)) - Head(frames).next + 2)
       + FramesLeft(Tail(frames))

LongestLoop ==
  LET lens == {Len(WalkDependencies(t)) : t \in Targets}
  IN CHOOSE m \in lens : \A n \in lens : n <= m

WalkMeasure ==
  (IF walk_pc = "call" THEN 1 ELSE 0)
  + FramesLeft(stack)
  + Cardinality(Targets \ visited) * (LongestLoop + 1)

NoDuplicates(seq) == \A i, j \in DOMAIN seq : seq[i] = seq[j] => i = j

\* C10: a walk terminates and yields no target twice: every step of a walk
\* strictly decreases a natural number, a walk that is not done can take a
\* step, and the targets yielded are pairwise different.
C10_WalkTerminatesNoDuplicates ==
  /\ [](/\ WalkMeasure \in Nat
        /\ (walk_pc # "done" => ENABLED NextWalk)
        /\ NoDuplicates(yielded))
  /\ [][WalkMeasure' < WalkMeasure]_vars

\* A finished walk from a target on a cycle that also meets a target twice.
C10_Witness ==
  /\ walk_pc = "done"
  /\ self \in UNION {Reachable(t) : t \in TargetDependencies(self)}
  /\ \E i, j \in DOMAIN WalkDependencies(self) :
       /\ i # j
       /\ WalkDependencies(self)[i] = WalkDependencies(self)[j]
       /\ IsTarget(WalkDependencies(self)[i])
  /\ Len(yielded) >= 2

\* Where target t stands among the targets yielded.
Position(t) == CHOOSE i \in DOMAIN yielded : yielded[i] = t

\* C11 as stated: a finished postorder walk has yielded the target it was
\* called on last and every yielded dependency of a yielded target before
\* that target (unless the dependency leads back to the target: a cycle); a
\* finished preorder walk has yielded the target it was called on first and
\* every other target after a yielded target that depends on it.
C11_AsStated ==
  (walk_pc = "done" /\ yielded # <<>>) =>
    IF postorder
      THEN /\ yielded[Len(yielded)] = self
           /\ \A t, d \in Yielded :
                (d \in TargetDependencies(t) /\ t \notin Reachable(d))
                  => Position(d) < Position(t)
      ELSE /\ yielded[1] = self
           /\ \A d \in Yielded \ {self} :
                \E t \in Yielded :
                  d \in TargetDependencies(t) /\ Position(t) < Position(d)

\* What the walk does keep, in terms of its own calls: in postorder a target
\* whose walk is still active has not been yielded and every other visited
\* target has; in preorder every visited target has been yielded.
WalkYieldsByCallOrder ==
  LET active == {stack[i].target : i \in DOMAIN stack}
  IN IF postorder THEN Yielded = visited \ active ELSE Yielded = visited

----------------------------------------------------------------------------
(* The invalidation report, checked under SpecRun *)

Report == "invalidation_report.report"

\* C19 as stated: the report is emitted at most once, only after the engine
\* has returned, never after a failed precondition, a raise or a
\* cancellation of the engine, and never when the engine's result code is
\* nonzero.
C19_AsStated ==
  /\ Count(events, Report) <= 1
  /\ Called(Report) =>
       /\ Precedes(events, Engine, Report)
       /\ Called(Engine)
       /\ errors = <<>>
       /\ engine_result = <<0>>

\* C19 amended: the report is emitted at most once, only after the engine
\* has returned a result code, zero or not, and never after a failed
\* precondition or a raise or cancellation of the engine; when a report is
\* present it is emitted whenever the engine returns, whatever its result.
C19_ReportOnceAfterEngineReturns ==
  /\ Count(events, Report) <= 1
  /\ Called(Report) =>
       /\ invalidation_report
       /\ Precedes(events, Engine, Report)
       /\ Called(Engine)
       /\ errors = <<>>
       /\ engine_result # Unset
  /\ (invalidation_report /\ engine_result # Unset /\ pc # "report")
       => Called(Report)

C19_Witness ==
  /\ pc = "done"
  /\ returned = <<2>>
  /\ events = <<Engine, Report, Failure>>

----------------------------------------------------------------------------
(* Properties of Variants.merge, checked under SpecMerge *)

\* The pairs of an argument, as a set; none for None.
PairsOf(v) == IF v = None THEN {} ELSE {v[2][i] : i \in DOMAIN v[2]}

KeysOf(v) == {p[1] : p \in PairsOf(v)}

\* The right-biased union: right's pairs, and left's pairs under other keys.
RightBiasedUnion(l, r) ==
  PairsOf(r) \cup {p \in PairsOf(l) : p[1] \notin KeysOf(r)}

\* v is a tuple of pairs in strictly increasing key order.
SortedByKey(v) ==
  /\ v # None
  /\ \A i, j \in DOMAIN v[2] : i < j => v[2][i][1] < v[2][j][1]

\* C14 as stated: merge returns None exactly when both arguments are absent
\* or empty, and otherwise a tuple sorted by key, without duplicate keys,
\* holding the right-biased union of the arguments.
C14_AsStated ==
  merge_pc = "returned" =>
    IF PairsOf(left) = {} /\ PairsOf(right) = {}
      THEN merge_result = None
      ELSE /\ SortedByKey(merge_result)
           /\ PairsOf(merge_result) = RightBiasedUnion(left, right)

\* What merge does keep: the result is None exactly when both arguments are
\* absent or empty and otherwise holds the right-biased union without
\* duplicate keys; it is sorted by key when both arguments are non-empty or
\* the only non-empty one already is.
MergeKeepsUnionSortsOnlyBoth ==
  merge_pc = "returned" =>
    IF PairsOf(left) = {} /\ PairsOf(right) = {}
      THEN merge_result = None
      ELSE /\ merge_result # None
           /\ PairsOf(merge_result) = RightBiasedUnion(left, right)
           /\ Len(merge_result[2]) = Cardinality(KeysOf(merge_result))
           /\ ((/\ PairsOf(left) # {} => SortedByKey(left)
                /\ PairsOf(right) # {} => SortedByKey(right))
               \/ (PairsOf(left) # {} /\ PairsOf(right) # {}))
                => SortedByKey(merge_result)

----------------------------------------------------------------------------
(* Sources.iter_paths: C12, C13, C20 *)

IterPathsRan == iter_pc \in {"iterating", "done"}

\* The excludes evaluated against the base path iter_paths itself resolved,
\* whether or not the excludes have an address of their own.
ExcludesAgainstSameBase ==
  IF sources.excludes = NoExcludes THEN {}
  ELSE Range(iter_paths([sources.excludes[1] EXCEPT !.address = NoAddress],
                        BasePath(sources, base_path)).paths)

\* C12 (as stated): iter_paths never yields a path whose extension its own
\* `extensions` rejects, and never yields a path that evaluating its excludes,
\* addressable or not, against the same base path produces.
C12_AsStated ==
  IterPathsRan =>
    \A i \in DOMAIN paths :
      /\ splitext(paths[i]) \in sources.extensions
      /\ paths[i] \notin ExcludesAgainstSameBase

\* What holds of the code: no yielded path has a rejected extension or is in
\* the set excludes.iter_paths(base_path) returned, which for addressable
\* excludes lies under the excludes' own directory.
IterPathsYieldsAcceptedNotExcluded ==
  IterPathsRan =>
    \A i \in DOMAIN paths :
      /\ splitext(paths[i]) \in sources.extensions
      /\ paths[i] \notin excluded_files

\* Every candidate path, joined to the base path, that is not excluded.
RECURSIVE NotExcluded(_, _, _)
NotExcluded(base, excluded, rel_paths) ==
  IF rel_paths = <<>> THEN <<>>
  ELSE (IF join(base, Head(rel_paths)) \in excluded
        THEN <<>> ELSE <<join(base, Head(rel_paths))>>)
       \o NotExcluded(base, excluded, Tail(rel_paths))

\* C13 (as stated): with an empty `extensions` any extension is accepted:
\* iter_paths yields every candidate path that is not in the excluded set.
C13_AsStated ==
  (iter_pc = "done" /\ sources.extensions = {}) =>
    paths = NotExcluded(BasePath(sources, base_path), excluded_files,
                        file_sources(sources, BasePath(sources, base_path)))

\* What holds of the code: with an empty `extensions` nothing is yielded.
EmptyExtensionsYieldNothing ==
  iter_pc # "idle" /\ sources.extensions = {} => paths = <<>>

\* C20 (as stated): the base path is the address's spec_path whenever there is
\* an address, the repository root included, else the explicit argument; the
\* call fails, yielding nothing, only without an address and without argument.
C20_AsStated ==
  /\ iter_pc = "ValueError" =>
       /\ paths = <<>>
       /\ sources.address = NoAddress
       /\ base_path = None
  /\ IterPathsRan =>
       \A i \in DOMAIN paths :
         \E rel_path \in Range(file_sources(sources, BasePath(sources, base_path))) :
           paths[i] = join(IF sources.address # NoAddress
                           THEN sources.address[1] ELSE base_path, rel_path)

\* What holds of the code: the call fails exactly when the resolved base path
\* is None or empty, here or in the chain of excludes, and yields nothing then.
IterPathsFailsIffBaseFalsy ==
  iter_pc \notin {"idle", "call"} =>
    /\ iter_pc = "ValueError" <=> iter_paths(sources, base_path).raised
    /\ iter_pc = "ValueError" => paths = <<>>
    /\ iter_pc = "done" => paths = iter_paths(sources, base_path).paths

----------------------------------------------------------------------------
(* Target.select_configuration: C15 *)

\* The positions of the target's configurations that carry the requested name.
Matches == {i \in DOMAIN target_configurations : target_configurations[i].name = name}

\* C15: select_configuration(name) returns a configuration iff exactly one
\* configuration of the target has that name, and then returns that one; with
\* none or with several of that name it raises ConfigurationNotFound and
\* returns nothing.
C15_ReturnsIffExactlyOneNamed ==
  select_pc \in {"returned", "ConfigurationNotFound"} =>
    /\ select_pc = "returned" <=> Cardinality(Matches) = 1
    /\ select_pc = "returned" =>
         \E i \in Matches : selected = <<target_configurations[i]>>
    /\ select_pc = "ConfigurationNotFound" => selected = <<>>

\* Two configurations named "default" and a third of another name: the call
\* for "default" has raised.
C15_Witness ==
  /\ select_pc = "ConfigurationNotFound"
  /\ name = "default"
  /\ Cardinality(Matches) = 2
  /\ Len(target_configurations) = 3

----------------------------------------------------------------------------
(* GoalRunnerFactory.setup: C16, C17, C18 *)

\* The positions of setup_events at which the callee was called.
Calls(callee) == {i \in DOMAIN setup_events : setup_events[i][1] = callee}

FurtherSetup ==
  {"Goal.by_name", "parse_addresses", "inject_address_closure", "get_target",
   "add_scm_info", "update_reporting", "Context"}

\* C16: with a help request set, setup prints help and exits with the help
\* printer's result before any further setup: no goal is materialized, no spec
\* parsed, no closure injected into the BuildGraph and no Context assembled.
C16_HelpExitsBeforeFurtherSetup ==
  help_request =>
    /\ _goals = <<>>
    /\ _targets = <<>>
    /\ build_graph = {}
    /\ \A callee \in FurtherSetup : Calls(callee) = {}
    /\ setup_pc \in {"launch", "resolve", "exited"}
    /\ setup_pc = "exited" =>
         /\ Cardinality(Calls("print_help")) = 1
         /\ help_result # <<>>
         /\ exit_status = help_result
         /\ setup_events[Len(setup_events)] = Call("exiter", "")

\* Help was requested along with goals and specs, the printer returned 1 and
\* the invocation has exited with it.
C16_Witness ==
  /\ help_request
  /\ setup_pc = "exited"
  /\ exit_status = <<1>>
  /\ requested_goals # <<>>
  /\ target_specs # <<>>

RECURSIVE Passing(_)
Passing(addresses) ==
  IF addresses = <<>> THEN <<>>
  ELSE (IF tag_filter(Head(addresses)) THEN <<Head(addresses)>> ELSE <<>>)
       \o Passing(Tail(addresses))

\* One entry per (spec, address) occurrence passing the filter, in spec order.
RECURSIVE RootTargets(_)
RootTargets(specs) ==
  IF specs = <<>> THEN <<>>
  ELSE Passing(parse_addresses(Head(specs))) \o RootTargets(Tail(specs))

\* C18: after spec expansion the root-target list holds, in spec order and then
\* address order, one entry per (spec, address) occurrence whose target passes
\* the tag filter, not deduplicated; a target failing the filter never appears;
\* every target is fetched right after its address's closure was injected.
C18_RootTargetsPerOccurrence ==
  /\ \A i \in DOMAIN _targets : tag_filter(_targets[i])
  /\ \A i \in Calls("get_target") :
       /\ i > 1
       /\ setup_events[i - 1] = Call("inject_address_closure", setup_events[i][2])
       /\ Closure(setup_events[i][2]) \subseteq build_graph
  /\ setup_pc = "done" => _targets = RootTargets(target_specs)

\* Two specs resolve to the same target, which is listed twice, while a target
\* of the second spec failed the tag filter.
C18_Witness ==
  /\ setup_pc = "done"
  /\ target_specs = <<"a:a", "a:">>
  /\ _targets = <<"a:a", "a:a">>

----------------------------------------------------------------------------
(* Target.select_configuration: C21 *)

\* C21 (as stated): when select_configuration raises ConfigurationNotFound, its
\* message enumerates every configuration of the target that was scanned, also
\* when none matched the requested name.
C21_AsStated ==
  select_pc = "ConfigurationNotFound" => message = target_configurations

\* What holds of the code: the message enumerates only the configurations of
\* the requested name, so none at all when no configuration matched.
MessageListsOnlyNamed ==
  select_pc = "ConfigurationNotFound" =>
    /\ Len(message) = Cardinality(Matches)
    /\ \A i \in DOMAIN message : message[i].name = name

----------------------------------------------------------------------------
(* Sources.iter_paths: C22 *)

\* The paths of one category that iter_paths accepts, in the category's order.
Accepted(rel_paths) ==
  YieldedFrom(sources, BasePath(sources, base_path), excluded_files, rel_paths, 1)

\* The accepted paths of the explicit files, then of globs, rglobs and zglobs,
\* a category that is not specified contributing nothing.
InSourceOrder ==
  Accepted(sources.files)
    \o (IF sources.globs
        THEN Accepted(Fileset("Globs", BasePath(sources, base_path))) ELSE <<>>)
    \o (IF sources.rglobs
        THEN Accepted(Fileset("RGlobs", BasePath(sources, base_path))) ELSE <<>>)
    \o (IF sources.zglobs
        THEN Accepted(Fileset("ZGlobs", BasePath(sources, base_path))) ELSE <<>>)

WrapperRank(wrapper) ==
  CASE wrapper = "Globs" -> 1 [] wrapper = "RGlobs" -> 2 [] wrapper = "ZGlobs" -> 3

WrapperSpecified(wrapper) ==
  CASE wrapper = "Globs" -> sources.globs
    [] wrapper = "RGlobs" -> sources.rglobs
    [] wrapper = "ZGlobs" -> sources.zglobs

\* C22: iter_paths yields its accepted paths in source order: those of the
\* explicit files first, then of globs, of rglobs and of zglobs, each category
\* in its own order; a category that is not specified contributes nothing and
\* its fileset is never evaluated.
C22_YieldsInSourceOrder ==
  IterPathsRan =>
    /\ Len(paths) <= Len(InSourceOrder)
    /\ paths = SubSeq(InSourceOrder, 1, Len(paths))
    /\ iter_pc = "done" => paths = InSourceOrder
    /\ \A i \in DOMAIN evaluated : WrapperSpecified(evaluated[i])
    /\ \A i, j \in DOMAIN evaluated :
         i < j => WrapperRank(evaluated[i]) < WrapperRank(evaluated[j])
    /\ iter_pc = "done" =>
         \A wrapper \in {"Globs", "RGlobs", "ZGlobs"} :
           WrapperSpecified(wrapper) => wrapper \in Range(evaluated)

\* An explicit file, globs and zglobs but no rglobs: three paths were yielded,
\* the file's first, and RGlobs was never evaluated.
C22_Witness ==
  /\ iter_pc = "done"
  /\ sources.files = <<Y_PY>>
  /\ sources.globs /\ ~sources.rglobs /\ sources.zglobs
  /\ Len(paths) = 3
  /\ paths[1] = join(BasePath(sources, base_path), Y_PY)
  /\ evaluated = <<"Globs", "ZGlobs">>

----------------------------------------------------------------------------
(* GoalRunner.run: C23 *)

\* A precondition of _execute_engine fails: a bad working directory, or a
\* goal without ordered task names.
PreconditionFails ==
  \/ ~EndsWith(workdir, <<".", "p", "a", "n", "t", "s", ".", "d">>)
  \/ NamesWithoutTasks(goals) # <<>>

\* C23: a precondition failure takes the outcome and cleanup path of an engine
\* failure: run() returns 1 and raises nothing, records the root outcome
\* FAILURE exactly once, before any cleanup, calls killall if and only if the
\* configured kill flag is true, and never emits the invalidation report.
C23_PreconditionFailureIsEngineFailure ==
  (pc # "idle" /\ PreconditionFails) =>
    /\ exc = NoExc
    /\ propagated = NoExc
    /\ pc \notin {"engine", "report", "except", "reraise"}
    /\ ~Called(Engine)
    /\ ~Called(Report)
    /\ Count(events, Failure) <= 1
    /\ Count(events, Killall) <= 1
    /\ Called(Killall) => (kill_nailguns /\ Precedes(events, Failure, Killall))
    /\ pc = "done" =>
         /\ returned = <<1>>
         /\ Count(events, Failure) = 1
         /\ Called(Killall) <=> kill_nailguns

\* A valid working directory and an unknown goal, with the kill flag set and an
\* invalidation report at hand: run() has returned 1 after killall.
C23_Witness ==
  /\ pc = "done"
  /\ EndsWith(workdir, <<".", "p", "a", "n", "t", "s", ".", "d">>)
  /\ NamesWithoutTasks(goals) # <<>>
  /\ kill_nailguns
  /\ invalidation_report
  /\ returned = <<1>>
  /\ events = <<"log.error", Failure, Killall>>

====
